---- MODULE Spec2Model ----
(***************************************************************************)
(* Model of the MT-32 MIDI handler of dosbox-staging                       *)
(* (src/src/midi/midi_mt32.cpp, src/src/midi/midi_mt32_model.cpp).         *)
(*                                                                         *)
(* Three execution contexts:                                               *)
(*   main     - the caller of Open, Close, PlayMsg/PlaySysex and           *)
(*              SetMixerLevel (the "mixer" command), one call at a time;   *)
(*   renderer - the std::thread running MidiHandler_mt32::Render;          *)
(*   playback - the mixer's pull callback, MidiHandler_mt32::MixerCallBack.*)
(* Each context has a program counter; one action is one step between two  *)
(* synchronisation points (a queue operation, a mutex operation, a read or *)
(* a write of a shared member).                                            *)
(*                                                                         *)
(* An audio buffer (std::vector<int16_t>) is a value that is moved from     *)
(* holder to holder: it is modelled by a stamp of its contents, the number *)
(* of the session (the Open call) in which it was constructed or last      *)
(* rendered into.  A move empties the source, an assignment over a buffer  *)
(* destroys the one assigned over.  NoBuf is the empty (default-           *)
(* constructed or moved-from) vector.                                      *)
(***************************************************************************)
EXTENDS Integers, Sequences, FiniteSets, TLC

\* ------------------------------------------------------------ constants

\* Frames per render quantum.
FRAMES_PER_BUFFER == 1024

\* Capacity given to both RWQueues (playable, backstock).
Capacity == 3

\* --------------------------------------------------------------- bounds

\* Number of Open calls (sessions) in one behaviour.
MaxOpens == 3

\* The playback callback is not started once this many buffers were played
\* in the session.
MaxPlayed == 2

\* Number of MIDI events submitted in one behaviour.
MaxEvents == 2

\* Frame counts the mixer asks for.
RequestSizes == {512, 1024}

\* Frame counts the mixer asks for in the frame-accounting scenario: 624 leaves
\* 400 frames of a fresh buffer, 2500 crosses buffer boundaries.
ScenarioSizes == {624, 2500}

NoBuf == 0

VARIABLES
    backstock,            \* RWQueue: idle buffers
    playable,             \* RWQueue: rendered buffers
    play_buffer,          \* the buffer being played
    playable_buffer,      \* Render()'s local buffer
    keep_rendering,       \* std::atomic_bool
    is_open,
    channel,              \* the handler holds a mixer channel
    chanEnabled,          \* the mixer runs the channel's callback
    service,              \* the handler holds the engine handle
    synthOpen,            \* the engine's synth is open (openSynth .. closeSynth)
    service_mutex,        \* owner of service_mutex: "free", "main", "renderer"
    total_buffers_played,
    last_played_frame,
    pcMain,               \* position of the main context
    closeRet,             \* where the running Close returns to
    opens,                \* number of Open calls so far
    loaded,               \* load_model returned true in the Open in progress
    pcR,                  \* position of the renderer thread
    pcCb,                 \* position of the playback callback
    requested_frames,     \* MixerCallBack's argument, counted down
    cbRequested,          \* the argument of the MixerCallBack call in progress
    cbOffset,             \* last_played_frame when that call was entered
    cbPulled,             \* buffers that call has taken from playable
    cbReturned,           \* buffers that call has put into backstock
    rdTot,                \* GetMidiEventTimestamp: total_buffers_played as read
    rdLast,               \* GetMidiEventTimestamp: last_played_frame as read
    rdCall,               \* the submission during which the cursor was read
    prevTs,               \* the previous value GetMidiEventTimestamp returned
    curTs,                \* the last value GetMidiEventTimestamp returned
    submitted,            \* number of PlayMsg/PlaySysex calls so far
    engineLog,            \* events the engine received, in order
    stopAt,               \* where the renderer was when Close cleared keep_rendering
    stopRenders,          \* renderFloat calls the renderer started since then
    stopPushes,           \* buffers the renderer pushed to playable since then
    ctorArgs,             \* Model::Model: the arguments of the construction
    ctorOutcome,          \* Model::Model: "none", "constructed", "aborted"
    platform,             \* the build: "WIN32", "MACOSX" or "POSIX"
    romdir,               \* the "romdir" setting of the [mt32] section
    xdgDataHome,          \* getenv("XDG_DATA_HOME")
    xdgDataDirs,          \* getenv("XDG_DATA_DIRS")
    selectedDirs,         \* what get_selected_dirs returned, <<>> before
    inDir,                \* Model::inDir of every catalogue entry
    tested,               \* the catalogue entry InDir and Load are called on
    callKind,             \* the registry call that ran: "none", "InDir", "Load"
    callModel,            \* that call's Model (index in all_models)
    callDir,              \* that call's dir argument
    callFacts,            \* what the call found about the ROM files, if it looked
    callValidated,        \* the call checked files and asked the engine
    callResult,           \* what InDir returned in that call
    loadLog,              \* Load: the engine's add calls and their return codes
    loadResult,           \* Load: what it returned
    romSets,              \* the (Model, directory) pairs whose ROM files are there
    selected_model,       \* load_model's selected_model argument
    scanPc,               \* load_model: "idle", "scan", "load", "done"
    scanModel,            \* load_model: index of model in all_models
    scanDir,              \* load_model: index of dir in rom_dirs
    loads,                \* load_model: the Load calls it made and their outcome
    resolveResult         \* load_model: "none", "true", "false"

handlerVars == <<backstock, playable, play_buffer, playable_buffer, keep_rendering,
          is_open, channel, chanEnabled, service, synthOpen, service_mutex,
          total_buffers_played, last_played_frame, pcMain, closeRet,
          opens, loaded, pcR, pcCb, requested_frames, cbRequested, cbOffset, cbPulled,
          cbReturned, rdTot, rdLast, rdCall, prevTs, curTs,
          submitted, engineLog, stopAt, stopRenders, stopPushes>>

\* Model::Model being run on arguments: the arguments and the outcome.
ctorVars == <<ctorArgs, ctorOutcome>>

\* The state of the model registry, the resolver and the search planner.
\* get_selected_dirs: the build, the setting, the environment, the result.
plannerVars == <<platform, romdir, xdgDataHome, xdgDataDirs, selectedDirs>>

\* Model::InDir and Model::Load: the caches, and the record of the last call.
callVars == <<callKind, callModel, callDir, callFacts, callValidated,
              callResult, loadLog, loadResult>>

presenceVars == <<inDir, tested, callVars>>

\* load_model: its arguments and the directories' contents, its position,
\* what it did and what it returned.
resolveVars == <<romSets, selected_model, scanPc, scanModel, scanDir, loads,
                 resolveResult>>

registryVars == <<ctorVars, plannerVars, presenceVars, resolveVars>>

vars == <<handlerVars, registryVars>>

\* What a construction leaves alone.
notCtorVars == <<handlerVars, plannerVars, presenceVars, resolveVars>>

\* What the search planner leaves alone.
notPlannerVars == <<handlerVars, ctorVars, presenceVars, resolveVars>>

\* What InDir and Load leave alone.
notPresenceVars == <<handlerVars, ctorVars, plannerVars, resolveVars>>

\* What load_model and the calls it makes leave alone.
notResolveVars == <<handlerVars, ctorVars, plannerVars, tested>>

queueVars == <<backstock, playable, play_buffer, playable_buffer>>
cursorVars == <<total_buffers_played, last_played_frame>>
handleVars == <<channel, chanEnabled, service, synthOpen>>
mainVars == <<pcMain, closeRet, opens, loaded>>
cbCall == <<cbRequested, cbOffset, cbPulled, cbReturned>>
cbVars == <<pcCb, requested_frames, cbCall>>
midiVars == <<rdTot, rdLast, rdCall, prevTs, curTs, submitted, engineLog>>
stopVars == <<stopAt, stopRenders, stopPushes>>

\* ------------------------------------------------------------- helpers

Min(a, b) == IF a < b THEN a ELSE b

\* RWQueue<T>: a FIFO of fixed capacity; Enqueue waits while the queue is at
\* capacity, Dequeue waits while it is empty.
CanEnqueue(q) == Len(q) < Capacity

CanDequeue(q) == Len(q) > 0

Enqueue(q, b) == Append(q, b)

\* The contents of a buffer constructed, copied from a constructed one or
\* rendered into during the current session.
FreshBuf == opens

\* Number of buffers a holder or a queue holds.
Held(b) == IF b = NoBuf THEN 0 ELSE 1

Count(q) == Cardinality({i \in 1..Len(q) : q[i] # NoBuf})

\* MT32Emu::Service::convertOutputToSynthTimestamp: the engine scales an output
\* frame count to its own clock (32 kHz synth, 48 kHz analogue output).
ConvertOutputToSynthTimestamp(frames) == (frames * 2) \div 3

\* GetMidiEventTimestamp's value for a cursor read as (tot, last).  The code
\* computes in uint32_t; with at most MaxPlayed + 2 buffers played the values
\* stay far below 2^32 and the arithmetic is exact.
Timestamp(tot, last) ==
    LET played_frames == tot * FRAMES_PER_BUFFER
    IN  ConvertOutputToSynthTimestamp(played_frames + last)

\* ------------------------------------------------- the model catalogue

\* A nullptr in a ROM slot of a Model.
NoRom == [id |-> <<>>, filename |-> ""]

\* rom_t {id, filename}.  An id is kept as the sequence of its parts between
\* underscores: "ctrl_mt32_1_04_a" is <<"ctrl", "mt32", "1", "04", "a">>.
Rom(id, filename) == [id |-> id, filename |-> filename]

\* rom_t::is_versioned: the first and the last underscore of the id are at
\* different positions, that is, the id has at least two underscores.
is_versioned(rom) ==
    LET underscores == Len(rom.id) - 1
    IN  underscores >= 2

\* Traditional ROMs and MAME ROMs, by the names of the rom_t objects.
Roms ==
    [mt32_nover_pcm_f |->
         Rom(<<"pcm", "mt32">>, "MT32_PCM.ROM"),
     mt32_nover_ctrl_f |->
         Rom(<<"ctrl", "mt32">>, "MT32_CONTROL.ROM"),
     cm32l_nover_pcm_f |->
         Rom(<<"pcm", "cm32l">>, "CM32L_PCM.ROM"),
     cm32l_nover_ctrl_f |->
         Rom(<<"ctrl", "cm32l">>, "CM32L_CONTROL.ROM"),
     mt32_pcm_nover_f |->
         Rom(<<"pcm", "mt32">>, "r15449121.ic37.bin"),
     mt32_pcm_nover_l |->
         Rom(<<"pcm", "mt32", "l">>, "r15179844.ic21.bin"),
     mt32_pcm_nover_h |->
         Rom(<<"pcm", "mt32", "h">>, "r15179845.ic22.bin"),
     mt32_ctrl_1_04_a |->
         Rom(<<"ctrl", "mt32", "1", "04", "a">>, "mt32_1.0.4.ic27.bin"),
     mt32_ctrl_1_04_b |->
         Rom(<<"ctrl", "mt32", "1", "04", "b">>, "mt32_1.0.4.ic26.bin"),
     mt32_ctrl_1_05_a |->
         Rom(<<"ctrl", "mt32", "1", "05", "a">>, "mt32_1.0.5.ic27.bin"),
     mt32_ctrl_1_05_b |->
         Rom(<<"ctrl", "mt32", "1", "05", "b">>, "mt32_1.0.5.ic26.bin"),
     mt32_ctrl_1_06_a |->
         Rom(<<"ctrl", "mt32", "1", "06", "a">>, "mt32_1.0.6.ic27.bin"),
     mt32_ctrl_1_06_b |->
         Rom(<<"ctrl", "mt32", "1", "06", "b">>, "mt32_1.0.6.ic26.bin"),
     mt32_ctrl_1_07_a |->
         Rom(<<"ctrl", "mt32", "1", "07", "a">>, "mt32_1.0.7.ic27.bin"),
     mt32_ctrl_1_07_b |->
         Rom(<<"ctrl", "mt32", "1", "07", "b">>, "mt32_1.0.7.ic26.bin"),
     mt32_ctrl_bluer_a |->
         Rom(<<"ctrl", "mt32", "bluer", "a">>, "blue_ridge__mt32a.bin"),
     mt32_ctrl_bluer_b |->
         Rom(<<"ctrl", "mt32", "bluer", "b">>, "blue_ridge__mt32b.bin"),
     mt32_ctrl_2_04_a |->
         Rom(<<"ctrl", "mt32", "2", "04", "a">>, "mt32_2.0.4.ic27.bin"),
     mt32_ctrl_2_04_b |->
         Rom(<<"ctrl", "mt32", "2", "04", "b">>, "mt32_2.0.4.ic26.bin"),
     cm32l_pcm_nover_l |->
         Rom(<<"pcm", "mt32">>, "r15449121.ic37.bin"),
     cm32l_pcm_nover_h |->
         Rom(<<"pcm", "cm32l", "h">>, "r15179945.ic8.bin"),
     cm32l_ctrl_1_00_f |->
         Rom(<<"ctrl", "cm32l", "1", "00">>, "lapc-i.v1.0.0.ic3.bin"),
     cm32l_ctrl_1_02_f |->
         Rom(<<"ctrl", "cm32l", "1", "02">>, "cm32l_control.rom")]

\* The members Model::Model initialises from its arguments.
MakeModel(rom_name, pcm_full, pcm_a, pcm_b, ctrl_full, ctrl_a, ctrl_b) ==
    [name |-> rom_name,
     pcmFull |-> pcm_full, pcmA |-> pcm_a, pcmB |-> pcm_b,
     ctrlFull |-> ctrl_full, ctrlA |-> ctrl_a, ctrlB |-> ctrl_b]

\* Roland LA models (composed of ROMs), by the names of the Model objects.
Models ==
    [mt32_nover_model |->
         MakeModel("mt32", Roms.mt32_nover_pcm_f, NoRom, NoRom, Roms.mt32_nover_ctrl_f, NoRom, NoRom),
     mt32_1_04_model |->
         MakeModel("mt32_1_04", Roms.mt32_pcm_nover_f, Roms.mt32_pcm_nover_l, Roms.mt32_pcm_nover_h, NoRom, Roms.mt32_ctrl_1_04_a, Roms.mt32_ctrl_1_04_b),
     mt32_1_05_model |->
         MakeModel("mt32_1_05", Roms.mt32_pcm_nover_f, Roms.mt32_pcm_nover_l, Roms.mt32_pcm_nover_h, NoRom, Roms.mt32_ctrl_1_05_a, Roms.mt32_ctrl_1_05_b),
     mt32_1_06_model |->
         MakeModel("mt32_1_06", Roms.mt32_pcm_nover_f, Roms.mt32_pcm_nover_l, Roms.mt32_pcm_nover_h, NoRom, Roms.mt32_ctrl_1_06_a, Roms.mt32_ctrl_1_06_b),
     mt32_1_07_model |->
         MakeModel("mt32_1_07", Roms.mt32_pcm_nover_f, Roms.mt32_pcm_nover_l, Roms.mt32_pcm_nover_h, NoRom, Roms.mt32_ctrl_1_07_a, Roms.mt32_ctrl_1_07_b),
     mt32_bluer_model |->
         MakeModel("mt32_bluer", Roms.mt32_pcm_nover_f, Roms.mt32_pcm_nover_l, Roms.mt32_pcm_nover_h, NoRom, Roms.mt32_ctrl_bluer_a, Roms.mt32_ctrl_bluer_b),
     mt32_2_04_model |->
         MakeModel("mt32_2_04", Roms.mt32_pcm_nover_f, Roms.mt32_pcm_nover_l, Roms.mt32_pcm_nover_h, NoRom, Roms.mt32_ctrl_2_04_a, Roms.mt32_ctrl_2_04_b),
     cm32l_nover_model |->
         MakeModel("cm32l", Roms.cm32l_nover_pcm_f, NoRom, NoRom, Roms.cm32l_nover_ctrl_f, NoRom, NoRom),
     cm32l_1_00_model |->
         MakeModel("cm32l_1_00", Roms.cm32l_nover_pcm_f, Roms.cm32l_pcm_nover_l, Roms.cm32l_pcm_nover_h, Roms.cm32l_ctrl_1_00_f, NoRom, NoRom),
     cm32l_1_02_model |->
         MakeModel("cm32l_1_02", Roms.cm32l_nover_pcm_f, Roms.cm32l_pcm_nover_l, Roms.cm32l_pcm_nover_h, Roms.cm32l_ctrl_1_02_f, NoRom, NoRom)]

\* In the order in which "model = auto" will load.
all_models ==
    <<Models.cm32l_nover_model,
      Models.cm32l_1_02_model,
      Models.cm32l_1_00_model,
      Models.mt32_nover_model,
      Models.mt32_2_04_model,
      Models.mt32_bluer_model,
      Models.mt32_1_07_model,
      Models.mt32_1_06_model,
      Models.mt32_1_05_model,
      Models.mt32_1_04_model>>

\* ----------------------------------------------------------------- Init

HandlerInit ==
    /\ backstock = <<>>
    /\ playable = <<>>
    /\ play_buffer = NoBuf
    /\ playable_buffer = NoBuf
    /\ keep_rendering = FALSE
    /\ is_open = FALSE
    /\ channel = FALSE
    /\ chanEnabled = FALSE
    /\ service = FALSE
    /\ synthOpen = FALSE
    /\ service_mutex = "free"
    /\ total_buffers_played = 0
    /\ last_played_frame = 0
    /\ pcMain = "idle"
    /\ closeRet = "idle"
    /\ opens = 0
    /\ loaded = FALSE
    /\ pcR = "none"
    /\ pcCb = "idle"
    /\ requested_frames = 0
    /\ cbRequested = 0
    /\ cbOffset = 0
    /\ cbPulled = 0
    /\ cbReturned = 0
    /\ rdTot = 0
    /\ rdLast = 0
    /\ rdCall = 0
    /\ prevTs = 0
    /\ curTs = 0
    /\ submitted = 0
    /\ engineLog = <<>>
    /\ stopAt = "none"
    /\ stopRenders = 0
    /\ stopPushes = 0

\* No Model is being constructed.
NoCtorArgs == MakeModel("", NoRom, NoRom, NoRom, NoRom, NoRom, NoRom)

CtorIdle ==
    /\ ctorArgs = NoCtorArgs
    /\ ctorOutcome = "none"

\* An environment variable: unset (getenv gives a null pointer) or a string.
Unset == [set |-> FALSE, value |-> <<>>]

SetTo(str) == [set |-> TRUE, value |-> str]

PlannerIdle ==
    /\ platform = "POSIX"
    /\ romdir = <<>>
    /\ xdgDataHome = Unset
    /\ xdgDataDirs = Unset
    /\ selectedDirs = <<>>

\* The slots of a Model.
Slots == {"pcmFull", "pcmA", "pcmB", "ctrlFull", "ctrlA", "ctrlB"}

\* A null "const char *" in mt32emu_rom_info.
NoId == <<>>

\* What path_exists and identifyROMFile say about a file that is not there.
Absent ==
    [exists |-> FALSE, rcode |-> "none", control_rom_id |-> NoId,
     pcm_rom_id |-> NoId]

\* No file was looked at.
NoFacts == [slot \in Slots |-> Absent]

\* No registry call has run.
CallIdle ==
    /\ callKind = "none"
    /\ callModel = 0
    /\ callDir = ""
    /\ callFacts = NoFacts
    /\ callValidated = FALSE
    /\ callResult = FALSE
    /\ loadLog = <<>>
    /\ loadResult = FALSE

\* "std::map<std::string, bool> inDir = {}" in every Model.
EmptyCaches == [i \in 1..Len(all_models) |-> <<>>]

PresenceIdle ==
    /\ inDir = EmptyCaches
    /\ tested = 0
    /\ CallIdle

\* load_model is not running.
ResolveIdle ==
    /\ romSets = {}
    /\ selected_model = "auto"
    /\ scanPc = "idle"
    /\ scanModel = 0
    /\ scanDir = 0
    /\ loads = {}
    /\ resolveResult = "none"

RegistryIdle == CtorIdle /\ PlannerIdle /\ PresenceIdle /\ ResolveIdle

Init == HandlerInit /\ RegistryIdle

\* ------------------------------------------------------- renderer thread

\* A Render() whose pre-population loop stops one buffer early.
RenderFillCheckShort ==
    /\ pcR = "r_fill"
    /\ pcR' = IF Len(backstock) < Capacity - 2 THEN "r_fill_enq" ELSE "r_last"
    /\ UNCHANGED <<registryVars, stopVars, queueVars, keep_rendering, is_open, handleVars, service_mutex,
                   cursorVars, mainVars, cbVars, midiVars>>

\* Render(), "while (backstock.Size() < backstock.MaxCapacity() - 1)".
RenderFillCheck ==
    /\ pcR = "r_fill"
    /\ pcR' = IF Len(backstock) < Capacity - 1 THEN "r_fill_enq" ELSE "r_last"
    /\ UNCHANGED <<registryVars, stopVars, queueVars, keep_rendering, is_open, handleVars, service_mutex,
                   cursorVars, mainVars, cbVars, midiVars>>

\* Render(), "backstock.Enqueue(playable_buffer)": a copy goes into backstock.
RenderFillEnqueue ==
    /\ pcR = "r_fill_enq"
    /\ CanEnqueue(backstock)
    /\ backstock' = Enqueue(backstock, FreshBuf)
    /\ pcR' = "r_fill"
    /\ UNCHANGED <<registryVars, stopVars, playable, play_buffer, playable_buffer, keep_rendering, is_open,
                   handleVars, service_mutex, cursorVars, mainVars, cbVars, midiVars>>

\* Render(), "backstock.Enqueue(std::move(playable_buffer))" and the assertion
\* after it, which reads the size the enqueue left.
RenderFillLast ==
    /\ pcR = "r_last"
    /\ CanEnqueue(backstock)
    /\ backstock' = Enqueue(backstock, playable_buffer)
    /\ playable_buffer' = NoBuf
    /\ pcR' = "r_check"
    /\ UNCHANGED <<registryVars, stopVars, playable, play_buffer, keep_rendering, is_open, handleVars,
                   service_mutex, cursorVars, mainVars, cbVars, midiVars>>

\* Render(), "while (keep_rendering.load())"; the thread ends when it is false.
RenderCheck ==
    /\ pcR = "r_check"
    /\ pcR' = IF keep_rendering THEN "r_lock" ELSE "done"
    /\ UNCHANGED <<registryVars, stopVars, queueVars, keep_rendering, is_open, handleVars, service_mutex,
                   cursorVars, mainVars, cbVars, midiVars>>

\* A Render() that enters renderFloat without taking service_mutex.
RenderLockNoMutex ==
    /\ pcR = "r_lock"
    /\ pcR' = "r_render"
    /\ stopRenders' = IF keep_rendering THEN stopRenders ELSE stopRenders + 1
    /\ UNCHANGED <<registryVars, stopAt, stopPushes, queueVars, keep_rendering, is_open, handleVars, service_mutex,
                   cursorVars, mainVars, cbVars, midiVars>>

\* Render(), the lock_guard on service_mutex; renderFloat starts.
RenderLock ==
    /\ pcR = "r_lock"
    /\ service_mutex = "free"
    /\ service_mutex' = "renderer"
    /\ pcR' = "r_render"
    /\ stopRenders' = IF keep_rendering THEN stopRenders ELSE stopRenders + 1
    /\ UNCHANGED <<registryVars, stopAt, stopPushes, queueVars, keep_rendering, is_open, handleVars, cursorVars,
                   mainVars, cbVars, midiVars>>

\* A Render() that tests keep_rendering again when renderFloat returns and
\* leaves the loop there, the rendered quantum not delivered.
RenderFloatChecksStop ==
    /\ pcR = "r_render"
    /\ service_mutex' = IF service_mutex = "renderer" THEN "free" ELSE service_mutex
    /\ pcR' = IF keep_rendering THEN "r_deq" ELSE "done"
    /\ UNCHANGED <<registryVars, stopVars, queueVars, keep_rendering, is_open, handleVars,
                   cursorVars, mainVars, cbVars, midiVars>>

\* Render(), renderFloat returns and the lock_guard's scope ends.
RenderFloat ==
    /\ pcR = "r_render"
    /\ service_mutex' = IF service_mutex = "renderer" THEN "free" ELSE service_mutex
    /\ pcR' = "r_deq"
    /\ UNCHANGED <<registryVars, stopVars, queueVars, keep_rendering, is_open, handleVars, cursorVars,
                   mainVars, cbVars, midiVars>>

\* Render(), "playable_buffer = backstock.Dequeue()" and soft_limiter.Process
\* into it.
RenderDequeue ==
    /\ pcR = "r_deq"
    /\ CanDequeue(backstock)
    /\ playable_buffer' = IF Head(backstock) = NoBuf THEN NoBuf ELSE FreshBuf
    /\ backstock' = Tail(backstock)
    /\ pcR' = "r_enq"
    /\ UNCHANGED <<registryVars, stopVars, playable, play_buffer, keep_rendering, is_open, handleVars,
                   service_mutex, cursorVars, mainVars, cbVars, midiVars>>

\* Render(), "playable.Enqueue(std::move(playable_buffer))".
RenderEnqueue ==
    /\ pcR = "r_enq"
    /\ CanEnqueue(playable)
    /\ playable' = Enqueue(playable, playable_buffer)
    /\ playable_buffer' = NoBuf
    /\ pcR' = "r_check"
    /\ stopPushes' = IF keep_rendering THEN stopPushes ELSE stopPushes + 1
    /\ UNCHANGED <<registryVars, stopAt, stopRenders, backstock, play_buffer, keep_rendering, is_open, handleVars,
                   service_mutex, cursorVars, mainVars, cbVars, midiVars>>

Renderer ==
    \/ RenderFillCheck
    \/ RenderFillEnqueue
    \/ RenderFillLast
    \/ RenderCheck
    \/ RenderLock
    \/ RenderFloat
    \/ RenderDequeue
    \/ RenderEnqueue

\* ----------------------------------------------------- playback callback

\* The mixer calls MixerCallBack(requested_frames) on an enabled channel, with
\* a frame count of `sizes`.
MixerCall(sizes) ==
    /\ pcCb = "idle"
    /\ chanEnabled
    /\ total_buffers_played < MaxPlayed
    /\ \E n \in sizes : /\ requested_frames' = n
                         /\ cbRequested' = n
    /\ cbOffset' = last_played_frame
    /\ cbPulled' = 0
    /\ cbReturned' = 0
    /\ pcCb' = "cb_loop"
    /\ UNCHANGED <<registryVars, stopVars, queueVars, keep_rendering, is_open, handleVars, service_mutex,
                   cursorVars, mainVars, pcR, midiVars>>

CbStart == MixerCall(RequestSizes)

\* The mixer's calls in the frame-accounting scenario.
CbStartScenario == MixerCall(ScenarioSizes)

\* A MixerCallBack that sets last_played_frame to the frames just played
\* instead of advancing it by them.
CbLoopAssignsOffset ==
    /\ pcCb = "cb_loop"
    /\ IF requested_frames = 0
       THEN /\ pcCb' = "idle"
            /\ cbRequested' = 0
            /\ cbOffset' = 0
            /\ cbPulled' = 0
            /\ cbReturned' = 0
            /\ UNCHANGED <<requested_frames, last_played_frame>>
       ELSE IF last_played_frame < FRAMES_PER_BUFFER
       THEN LET frames_to_be_played ==
                    Min(FRAMES_PER_BUFFER - last_played_frame, requested_frames)
            IN  /\ requested_frames' = requested_frames - frames_to_be_played
                /\ last_played_frame' = frames_to_be_played
                /\ pcCb' = "cb_loop"
                /\ UNCHANGED cbCall
       ELSE /\ pcCb' = "cb_return"
            /\ UNCHANGED <<requested_frames, last_played_frame, cbCall>>
    /\ UNCHANGED <<registryVars, stopVars, queueVars, keep_rendering, is_open, handleVars, service_mutex,
                   total_buffers_played, mainVars, pcR, midiVars>>

\* MixerCallBack's loop: the test of requested_frames, GetRemainingFrames' test
\* of last_played_frame and, when frames are left in play_buffer, the body.
CbLoop ==
    /\ pcCb = "cb_loop"
    /\ IF requested_frames = 0
       THEN /\ pcCb' = "idle"
            /\ cbRequested' = 0
            /\ cbOffset' = 0
            /\ cbPulled' = 0
            /\ cbReturned' = 0
            /\ UNCHANGED <<requested_frames, last_played_frame>>
       ELSE IF last_played_frame < FRAMES_PER_BUFFER
       THEN LET frames_to_be_played ==
                    Min(FRAMES_PER_BUFFER - last_played_frame, requested_frames)
            IN  /\ requested_frames' = requested_frames - frames_to_be_played
                /\ last_played_frame' = last_played_frame + frames_to_be_played
                /\ pcCb' = "cb_loop"
                /\ UNCHANGED cbCall
       ELSE /\ pcCb' = "cb_return"
            /\ UNCHANGED <<requested_frames, last_played_frame, cbCall>>
    /\ UNCHANGED <<registryVars, stopVars, queueVars, keep_rendering, is_open, handleVars, service_mutex,
                   total_buffers_played, mainVars, pcR, midiVars>>

\* A GetRemainingFrames that pushes play_buffer into backstock without waiting
\* for room.
CbReturnNoWait ==
    /\ pcCb = "cb_return"
    /\ backstock' = Enqueue(backstock, play_buffer)
    /\ play_buffer' = NoBuf
    /\ pcCb' = "cb_next"
    /\ cbReturned' = cbReturned + 1
    /\ UNCHANGED <<registryVars, stopVars, playable, playable_buffer, keep_rendering, is_open, handleVars,
                   service_mutex, cursorVars, mainVars, pcR, requested_frames,
                   cbRequested, cbOffset, cbPulled, midiVars>>

\* GetRemainingFrames, "backstock.Enqueue(std::move(play_buffer))".
CbReturn ==
    /\ pcCb = "cb_return"
    /\ CanEnqueue(backstock)
    /\ backstock' = Enqueue(backstock, play_buffer)
    /\ play_buffer' = NoBuf
    /\ pcCb' = "cb_next"
    /\ cbReturned' = cbReturned + 1
    /\ UNCHANGED <<registryVars, stopVars, playable, playable_buffer, keep_rendering, is_open, handleVars,
                   service_mutex, cursorVars, mainVars, pcR, requested_frames,
                   cbRequested, cbOffset, cbPulled, midiVars>>

\* GetRemainingFrames, "play_buffer = playable.Dequeue()".
CbNext ==
    /\ pcCb = "cb_next"
    /\ CanDequeue(playable)
    /\ play_buffer' = Head(playable)
    /\ playable' = Tail(playable)
    /\ pcCb' = "cb_inc"
    /\ cbPulled' = cbPulled + 1
    /\ UNCHANGED <<registryVars, stopVars, backstock, playable_buffer, keep_rendering, is_open, handleVars,
                   service_mutex, cursorVars, mainVars, pcR, requested_frames,
                   cbRequested, cbOffset, cbReturned, midiVars>>

\* GetRemainingFrames, "total_buffers_played++".
CbInc ==
    /\ pcCb = "cb_inc"
    /\ total_buffers_played' = total_buffers_played + 1
    /\ pcCb' = "cb_zero"
    /\ UNCHANGED <<registryVars, stopVars, queueVars, keep_rendering, is_open, handleVars, service_mutex,
                   last_played_frame, mainVars, pcR, requested_frames, cbCall,
                   midiVars>>

\* GetRemainingFrames, "last_played_frame = 0" and the return to the loop.
CbZero ==
    /\ pcCb = "cb_zero"
    /\ last_played_frame' = 0
    /\ pcCb' = "cb_loop"
    /\ UNCHANGED <<registryVars, stopVars, queueVars, keep_rendering, is_open, handleVars, service_mutex,
                   total_buffers_played, mainVars, pcR, requested_frames, cbCall,
                   midiVars>>

Playback ==
    \/ CbStart
    \/ CbLoop
    \/ CbReturn
    \/ CbNext
    \/ CbInc
    \/ CbZero

\* ------------------------------------------------------------ main: Close

\* A Close() without the test of is_open.
CloseEnterUnguarded(ret, noop) ==
    /\ pcCb = "idle"
    /\ chanEnabled' = IF channel THEN FALSE ELSE chanEnabled
    /\ keep_rendering' = FALSE
    /\ closeRet' = ret
    /\ pcMain' = "cl_size"
    /\ stopAt' = pcR
    /\ stopRenders' = 0
    /\ stopPushes' = 0

\* Close(): "if (!is_open) return;", then channel->Enable(false) and
\* keep_rendering = false.  Disabling the channel waits for a callback in
\* progress to return.  `ret` is the position the call returns to and `noop`
\* the position of a call that found the handler not open.
CloseEnter(ret, noop) ==
    IF ~is_open
    THEN /\ pcMain' = noop
         /\ UNCHANGED <<chanEnabled, keep_rendering, closeRet, stopVars>>
    ELSE /\ pcCb = "idle"
         /\ chanEnabled' = IF channel THEN FALSE ELSE chanEnabled
         /\ keep_rendering' = FALSE
         /\ closeRet' = ret
         /\ pcMain' = "cl_size"
         /\ stopAt' = pcR
         /\ stopRenders' = 0
         /\ stopPushes' = 0

\* A call of Close() by the handler's user (also the destructor's).
CloseCall ==
    /\ pcMain = "idle"
    /\ CloseEnter("idle", "cl_noop")
    /\ UNCHANGED <<registryVars, queueVars, is_open, channel, service, synthOpen, service_mutex,
                   cursorVars, opens, loaded, pcR, cbVars, midiVars>>

\* Close(), "if (!backstock.Size())".
CloseSize ==
    /\ pcMain = "cl_size"
    /\ pcMain' = IF Len(backstock) = 0 THEN "cl_put" ELSE "cl_drain"
    /\ UNCHANGED <<registryVars, stopVars, queueVars, keep_rendering, is_open, handleVars, service_mutex,
                   cursorVars, closeRet, opens, loaded, pcR, cbVars, midiVars>>

\* Close(), "backstock.Enqueue(std::move(play_buffer))".
ClosePut ==
    /\ pcMain = "cl_put"
    /\ CanEnqueue(backstock)
    /\ backstock' = Enqueue(backstock, play_buffer)
    /\ play_buffer' = NoBuf
    /\ pcMain' = "cl_drain"
    /\ UNCHANGED <<registryVars, stopVars, playable, playable_buffer, keep_rendering, is_open, handleVars,
                   service_mutex, cursorVars, closeRet, opens, loaded, pcR, cbVars,
                   midiVars>>

\* Close(), "while (playable.Size()) play_buffer = playable.Dequeue();": one
\* turn of the loop; the buffer assigned over is destroyed.
CloseDrain ==
    /\ pcMain = "cl_drain"
    /\ IF Len(playable) > 0
       THEN /\ play_buffer' = Head(playable)
            /\ playable' = Tail(playable)
            /\ pcMain' = "cl_drain"
       ELSE /\ pcMain' = "cl_join"
            /\ UNCHANGED <<play_buffer, playable>>
    /\ UNCHANGED <<registryVars, stopVars, backstock, playable_buffer, keep_rendering, is_open, handleVars,
                   service_mutex, cursorVars, closeRet, opens, loaded, pcR, cbVars,
                   midiVars>>

\* A Close() that goes on to the teardown without joining the renderer.
CloseJoinNoWait ==
    /\ pcMain = "cl_join"
    /\ pcMain' = "cl_stop"
    /\ UNCHANGED <<registryVars, stopVars, queueVars, keep_rendering, is_open, handleVars, service_mutex,
                   cursorVars, closeRet, opens, loaded, pcR, cbVars, midiVars>>

\* Close(), "if (renderer.joinable()) renderer.join();".
CloseJoin ==
    /\ pcMain = "cl_join"
    /\ pcR \in {"none", "done"}
    /\ pcR' = "none"
    /\ pcMain' = "cl_stop"
    /\ stopAt' = "none"
    /\ stopRenders' = 0
    /\ stopPushes' = 0
    /\ UNCHANGED <<registryVars, queueVars, keep_rendering, is_open, handleVars, service_mutex,
                   cursorVars, closeRet, opens, loaded, cbVars, midiVars>>

\* Close(), from "if (service) { closeSynth; freeContext }" to the end: the
\* engine context goes, with the events it took; the members are reset.
CloseStop ==
    /\ pcMain = "cl_stop"
    /\ synthOpen' = IF service THEN FALSE ELSE synthOpen
    /\ engineLog' = IF service THEN <<>> ELSE engineLog
    /\ channel' = FALSE
    /\ chanEnabled' = FALSE
    /\ service' = FALSE
    /\ total_buffers_played' = 0
    /\ last_played_frame' = 0
    /\ is_open' = FALSE
    /\ pcMain' = "cl_ret"
    /\ submitted' = 0
    /\ prevTs' = 0
    /\ curTs' = 0
    /\ UNCHANGED <<registryVars, stopVars, queueVars, keep_rendering, service_mutex, closeRet, opens, loaded, pcR,
                   cbVars, rdTot, rdLast, rdCall>>

\* Close() returns: to its caller, or into Open().
CloseReturn ==
    /\ pcMain \in {"cl_ret", "cl_noop"}
    /\ pcMain' = IF pcMain = "cl_ret" THEN closeRet ELSE "idle"
    /\ UNCHANGED <<registryVars, stopVars, queueVars, keep_rendering, is_open, handleVars, service_mutex,
                   cursorVars, closeRet, opens, loaded, pcR, cbVars, midiVars>>

\* ------------------------------------------------------------- main: Open

\* Open(), its first statement: Close().
OpenCall ==
    /\ pcMain = "idle"
    /\ opens < MaxOpens
    /\ CloseEnter("op_load", "op_load")
    /\ UNCHANGED <<registryVars, queueVars, is_open, channel, service, synthOpen, service_mutex,
                   cursorVars, opens, loaded, pcR, cbVars, midiVars>>

\* An Open() that goes on to openSynth whatever load_model returned.
OpenLoadIgnoresResult ==
    /\ pcMain = "op_load"
    /\ opens' = opens + 1
    /\ \E found \in BOOLEAN : loaded' = found
    /\ pcMain' = "op_synth"
    /\ UNCHANGED <<registryVars, stopVars, queueVars, keep_rendering, is_open, handleVars, service_mutex,
                   cursorVars, closeRet, pcR, cbVars, midiVars>>

\* Open(), GetService .. load_model: the resolution finds and loads a model or
\* does not; Open returns false when it does not.  The Open call is counted
\* here, its Close() being over.
OpenLoad ==
    /\ pcMain = "op_load"
    /\ opens' = opens + 1
    /\ \E found \in BOOLEAN :
           /\ loaded' = found
           /\ pcMain' = IF found THEN "op_synth" ELSE "op_fail"
    /\ UNCHANGED <<registryVars, stopVars, queueVars, keep_rendering, is_open, handleVars, service_mutex,
                   cursorVars, closeRet, pcR, cbVars, midiVars>>

\* An Open() that hands the service and the channel to the handler before it
\* tests openSynth's return code.
OpenSynthKeepsHandles ==
    /\ pcMain = "op_synth"
    /\ \E rc_ok \in BOOLEAN :
           /\ service' = TRUE
           /\ channel' = TRUE
           /\ IF ~rc_ok
              THEN /\ pcMain' = "op_fail"
                   /\ UNCHANGED <<synthOpen, keep_rendering, pcR, playable_buffer>>
              ELSE /\ synthOpen' = TRUE
                   /\ keep_rendering' = TRUE
                   /\ IF pcR = "none"
                      THEN /\ pcR' = "r_fill"
                           /\ playable_buffer' = FreshBuf
                           /\ pcMain' = "op_prime"
                      ELSE /\ pcMain' = "terminated"
                           /\ UNCHANGED <<pcR, playable_buffer>>
    /\ UNCHANGED <<registryVars, stopVars, backstock, playable, play_buffer, is_open, chanEnabled,
                   service_mutex, cursorVars, closeRet, opens, loaded, cbVars, midiVars>>

\* Open(), from MIXER_AddChannel to the start of the renderer: openSynth is
\* refused (return false; the local service and channel are released) or the
\* handler takes the service and the channel, sets keep_rendering and starts
\* the thread, whose first act is to construct its playable_buffer.
\* Assigning a std::thread to a joinable one terminates the process.
OpenSynth ==
    /\ pcMain = "op_synth"
    /\ \E rc_ok \in BOOLEAN :
           IF ~rc_ok
           THEN /\ pcMain' = "op_fail"
                /\ UNCHANGED <<service, channel, synthOpen, keep_rendering, pcR,
                               playable_buffer>>
           ELSE /\ synthOpen' = TRUE
                /\ service' = TRUE
                /\ channel' = TRUE
                /\ keep_rendering' = TRUE
                /\ IF pcR = "none"
                   THEN /\ pcR' = "r_fill"
                        /\ playable_buffer' = FreshBuf
                        /\ pcMain' = "op_prime"
                   ELSE /\ pcMain' = "terminated"
                        /\ UNCHANGED <<pcR, playable_buffer>>
    /\ UNCHANGED <<registryVars, stopVars, backstock, playable, play_buffer, is_open, chanEnabled,
                   service_mutex, cursorVars, closeRet, opens, loaded, cbVars, midiVars>>

\* Open(), "play_buffer = playable.Dequeue()", channel->Enable(true),
\* is_open = true, return true.
OpenPrime ==
    /\ pcMain = "op_prime"
    /\ CanDequeue(playable)
    /\ play_buffer' = Head(playable)
    /\ playable' = Tail(playable)
    /\ chanEnabled' = TRUE
    /\ is_open' = TRUE
    /\ pcMain' = "op_ok"
    /\ UNCHANGED <<registryVars, stopVars, backstock, playable_buffer, keep_rendering, channel, service,
                   synthOpen, service_mutex, cursorVars, closeRet, opens, loaded, pcR,
                   cbVars, midiVars>>

\* Open() returns true or false to its caller.
OpenReturn ==
    /\ pcMain \in {"op_ok", "op_fail"}
    /\ pcMain' = "idle"
    /\ loaded' = FALSE
    /\ UNCHANGED <<registryVars, stopVars, queueVars, keep_rendering, is_open, handleVars, service_mutex,
                   cursorVars, closeRet, opens, pcR, cbVars, midiVars>>

\* ------------------------------------------------ main: PlayMsg, PlaySysex

\* PlayMsg / PlaySysex, the lock_guard on service_mutex.  The MIDI layer
\* delivers events to an open handler only.
MidiLock ==
    /\ pcMain = "idle"
    /\ is_open
    /\ submitted < MaxEvents
    /\ service_mutex = "free"
    /\ service_mutex' = "main"
    /\ submitted' = submitted + 1
    /\ pcMain' = "midi_rd_tot"
    /\ UNCHANGED <<registryVars, stopVars, queueVars, keep_rendering, is_open, handleVars, cursorVars,
                   closeRet, opens, loaded, pcR, cbVars, rdTot, rdLast, rdCall, prevTs,
                   curTs, engineLog>>

\* GetMidiEventTimestamp, "played_frames = total_buffers_played * FRAMES_PER_BUFFER".
MidiReadTotal ==
    /\ pcMain = "midi_rd_tot"
    /\ rdTot' = total_buffers_played
    /\ rdCall' = submitted
    /\ pcMain' = "midi_rd_last"
    /\ UNCHANGED <<registryVars, stopVars, queueVars, keep_rendering, is_open, handleVars, service_mutex,
                   cursorVars, closeRet, opens, loaded, pcR, cbVars, rdLast, prevTs, curTs,
                   submitted, engineLog>>

\* GetMidiEventTimestamp, the read of last_played_frame and the conversion; the
\* value is the argument of playMsgAt / playSysexAt, which is entered.
MidiReadLast ==
    /\ pcMain = "midi_rd_last"
    /\ rdLast' = last_played_frame
    /\ curTs' = Timestamp(rdTot, last_played_frame)
    /\ prevTs' = IF submitted > 1 THEN curTs ELSE curTs'
    /\ pcMain' = "midi_play"
    /\ UNCHANGED <<registryVars, stopVars, queueVars, keep_rendering, is_open, handleVars, service_mutex,
                   cursorVars, closeRet, opens, loaded, pcR, cbVars, rdTot, rdCall,
                   submitted, engineLog>>

\* A PlayMsg / PlaySysex whose event reaches the engine ahead of the events
\* submitted before it.
MidiPlayReordered ==
    /\ pcMain = "midi_play"
    /\ engineLog' = <<[seq |-> submitted, ts |-> curTs, readIn |-> rdCall,
                       tot |-> rdTot, last |-> rdLast]>> \o engineLog
    /\ service_mutex' = IF service_mutex = "main" THEN "free" ELSE service_mutex
    /\ rdTot' = 0
    /\ rdLast' = 0
    /\ rdCall' = 0
    /\ pcMain' = "idle"
    /\ UNCHANGED <<registryVars, stopVars, queueVars, keep_rendering, is_open, handleVars, cursorVars,
                   closeRet, opens, loaded, pcR, cbVars, prevTs, curTs, submitted>>

\* PlayMsg / PlaySysex: the engine takes the event with its timestamp, the call
\* returns and the lock_guard's scope ends.
MidiPlay ==
    /\ pcMain = "midi_play"
    /\ engineLog' = Append(engineLog, [seq |-> submitted, ts |-> curTs,
                                       readIn |-> rdCall, tot |-> rdTot,
                                       last |-> rdLast])
    /\ service_mutex' = IF service_mutex = "main" THEN "free" ELSE service_mutex
    /\ rdTot' = 0
    /\ rdLast' = 0
    /\ rdCall' = 0
    /\ pcMain' = "idle"
    /\ UNCHANGED <<registryVars, stopVars, queueVars, keep_rendering, is_open, handleVars, cursorVars,
                   closeRet, opens, loaded, pcR, cbVars, prevTs, curTs, submitted>>

\* --------------------------------------------------- main: SetMixerLevel

\* SetMixerLevel, the lock_guard on service_mutex; setOutputGain is entered
\* when the handler holds a service.
LevelLock ==
    /\ pcMain = "idle"
    /\ channel
    /\ service_mutex = "free"
    /\ service_mutex' = "main"
    /\ pcMain' = "lvl_gain"
    /\ UNCHANGED <<registryVars, stopVars, queueVars, keep_rendering, is_open, handleVars, cursorVars,
                   closeRet, opens, loaded, pcR, cbVars, midiVars>>

\* SetMixerLevel, the end of the lock_guard's scope and the limiter's update.
LevelUnlock ==
    /\ pcMain = "lvl_gain"
    /\ service_mutex' = IF service_mutex = "main" THEN "free" ELSE service_mutex
    /\ pcMain' = "idle"
    /\ UNCHANGED <<registryVars, stopVars, queueVars, keep_rendering, is_open, handleVars, cursorVars,
                   closeRet, opens, loaded, pcR, cbVars, midiVars>>

\* Open and Close, the calls that start and stop the pipeline.
Lifecycle ==
    \/ CloseCall
    \/ CloseSize
    \/ ClosePut
    \/ CloseDrain
    \/ CloseJoin
    \/ CloseStop
    \/ CloseReturn
    \/ OpenCall
    \/ OpenLoad
    \/ OpenSynth
    \/ OpenPrime
    \/ OpenReturn

\* The calls into the engine made by the main context on an open handler.
EngineCalls ==
    \/ MidiLock
    \/ MidiReadTotal
    \/ MidiReadLast
    \/ MidiPlay
    \/ LevelLock
    \/ LevelUnlock

\* ------------------------------------------------------ Model::Model

\* Model::Model checking the name only.
ModelAssertsNameOnly(m) ==
    m.name # ""

\* Model::Model, the three assertions on the members: the name is not empty,
\* "pcmFull || (pcmA && pcmB)", "ctrlFull || (ctrlA && ctrlB)", a pointer
\* being true when it is not nullptr.
ModelAsserts(m) ==
    /\ m.name # ""
    /\ (m.pcmFull # NoRom \/ (m.pcmA # NoRom /\ m.pcmB # NoRom))
    /\ (m.ctrlFull # NoRom \/ (m.ctrlA # NoRom /\ m.ctrlB # NoRom))

\* Model::Model: the members are initialised from the arguments, then the
\* assertions run; a failed assertion aborts the construction.
Construct ==
    /\ ctorOutcome = "none"
    /\ LET m == MakeModel(ctorArgs.name, ctorArgs.pcmFull, ctorArgs.pcmA,
                          ctorArgs.pcmB, ctorArgs.ctrlFull, ctorArgs.ctrlA,
                          ctorArgs.ctrlB)
       IN  ctorOutcome' = IF ModelAsserts(m) THEN "constructed" ELSE "aborted"
    /\ UNCHANGED <<ctorArgs, notCtorVars>>

\* The arguments a construction is tried with: every combination of an empty
\* or non-empty name and of a null or non-null pointer in each of the six
\* slots, and the arguments of the ten catalogue entries.
CtorInputs ==
    {MakeModel(n, pf, pa, pb, cf, ca, cb) :
        n \in {"", "mt32_1_07"},
        pf \in {NoRom, Roms.mt32_pcm_nover_f},
        pa \in {NoRom, Roms.mt32_pcm_nover_l},
        pb \in {NoRom, Roms.mt32_pcm_nover_h},
        cf \in {NoRom, Roms.mt32_nover_ctrl_f},
        ca \in {NoRom, Roms.mt32_ctrl_1_07_a},
        cb \in {NoRom, Roms.mt32_ctrl_1_07_b}}
    \cup {all_models[i] : i \in 1..Len(all_models)}

InitConstruct ==
    /\ HandlerInit
    /\ PlannerIdle
    /\ PresenceIdle
    /\ ResolveIdle
    /\ ctorArgs \in CtorInputs
    /\ ctorOutcome = "none"

NextConstruct == Construct

SpecConstruct == InitConstruct /\ [][NextConstruct]_vars

\* --------------------------------------------- directory search planner

\* A path is the sequence of its pieces: a piece is one of the characters
\* "/", "\\", "~", ":", " ", or a run of other characters ("mt32-roms").

\* CROSS_FILESPLIT.
CROSS_FILESPLIT == IF platform = "WIN32" THEN "\\" ELSE "/"

\* The user's home directory.
HomeDir == <<"/", "home", "/", "user">>

\* CROSS_ResolveHome: a leading "~" that stands alone or is followed by a
\* separator is replaced by the home directory, the rest is kept.
CROSS_ResolveHome(str) ==
    IF /\ Len(str) >= 1
       /\ str[1] = "~"
       /\ (Len(str) = 1 \/ str[2] = CROSS_FILESPLIT)
    THEN HomeDir \o Tail(str)
    ELSE str

\* CROSS_GetPlatformConfigDir.
CROSS_GetPlatformConfigDir ==
    CROSS_ResolveHome(<<"~", CROSS_FILESPLIT, ".config", CROSS_FILESPLIT,
                        "dosbox", CROSS_FILESPLIT>>)

\* split(str, delim): the fields of str between the delimiters.
RECURSIVE split(_, _)
split(str, delim) ==
    IF \A i \in 1..Len(str) : str[i] # delim
    THEN <<str>>
    ELSE LET k == CHOOSE i \in 1..Len(str) :
                      /\ str[i] = delim
                      /\ \A j \in 1..(i - 1) : str[j] # delim
         IN  <<SubSeq(str, 1, k - 1)>> \o split(SubSeq(str, k + 1, Len(str)), delim)

\* trim(str): str without its leading and trailing white space.
RECURSIVE trim(_)
trim(str) ==
    IF str = <<>> THEN str
    ELSE IF str[1] = " " THEN trim(Tail(str))
    ELSE IF str[Len(str)] = " " THEN trim(SubSeq(str, 1, Len(str) - 1))
    ELSE str

\* get_rom_dirs, the loop over the fields of $XDG_DATA_DIRS: a field that is
\* empty once trimmed is skipped, the others are resolved and get
\* "/mt32-rom-data/" appended.
RECURSIVE xdg_data_dirs_loop(_, _)
xdg_data_dirs_loop(dirs, fields) ==
    IF fields = <<>> THEN dirs
    ELSE LET xdg_data_dir == trim(Head(fields))
             resolved_dir == CROSS_ResolveHome(xdg_data_dir)
         IN  IF xdg_data_dir = <<>>
             THEN xdg_data_dirs_loop(dirs, Tail(fields))
             ELSE xdg_data_dirs_loop(
                      Append(dirs, resolved_dir \o <<"/", "mt32-rom-data", "/">>),
                      Tail(fields))

\* get_rom_dirs, one definition per platform.
get_rom_dirs_win32 ==
    << <<"..", "\\", "mt32-roms", "\\">>,
       CROSS_GetPlatformConfigDir \o <<"mt32-roms", "\\">>,
       <<"C:", "\\", "mt32-rom-data", "\\">> >>

get_rom_dirs_macosx ==
    << <<"..", "/", "mt32-roms", "/">>,
       CROSS_GetPlatformConfigDir \o <<"mt32-roms", "/">>,
       CROSS_ResolveHome(<<"~", "/", "Library", "/", "Audio", "/", "Sounds", "/",
                           "MT32-Roms", "/">>),
       <<"/", "usr", "/", "local", "/", "share", "/", "mt32-rom-data", "/">>,
       <<"/", "usr", "/", "share", "/", "mt32-rom-data", "/">> >>

get_rom_dirs_posix ==
    LET xdg_data_home ==
            CROSS_ResolveHome(IF xdgDataHome.set
                              THEN xdgDataHome.value
                              ELSE <<"~", "/", ".local", "/", "share">>)
        dirs ==
            << <<"..", "/", "mt32-roms", "/">>,
               xdg_data_home \o <<"/", "dosbox", "/", "mt32-roms", "/">>,
               xdg_data_home \o <<"/", "mt32-rom-data", "/">> >>
        xdg_data_dirs_env ==
            IF xdgDataDirs.set
            THEN xdgDataDirs.value
            ELSE <<"/", "usr", "/", "local", "/", "share", ":",
                   "/", "usr", "/", "share">>
        with_data_dirs == xdg_data_dirs_loop(dirs, split(xdg_data_dirs_env, ":"))
    IN  Append(with_data_dirs, CROSS_GetPlatformConfigDir \o <<"mt32-roms", "/">>)

get_rom_dirs ==
    CASE platform = "WIN32" -> get_rom_dirs_win32
      [] platform = "MACOSX" -> get_rom_dirs_macosx
      [] OTHER -> get_rom_dirs_posix

\* get_selected_dirs putting the user's directory behind the others.
get_selected_dirs_last ==
    LET rom_dirs == get_rom_dirs
        configured == IF romdir = <<>> THEN <<"mt32-roms">> ELSE romdir
        back == configured[Len(configured)]
        selected_romdir == IF back # "/" /\ back # "\\"
                           THEN Append(configured, CROSS_FILESPLIT)
                           ELSE configured
    IN  Append(rom_dirs, CROSS_ResolveHome(selected_romdir))

\* get_selected_dirs: the platform's directories, and in front of them the
\* configured directory ("mt32-roms" when the setting is empty), with
\* CROSS_FILESPLIT appended unless it ends with "/" or "\\", home-resolved.
get_selected_dirs ==
    LET rom_dirs == get_rom_dirs
        configured == IF romdir = <<>> THEN <<"mt32-roms">> ELSE romdir
        back == configured[Len(configured)]
        selected_romdir == IF back # "/" /\ back # "\\"
                           THEN Append(configured, CROSS_FILESPLIT)
                           ELSE configured
    IN  <<CROSS_ResolveHome(selected_romdir)>> \o rom_dirs

\* One call of get_selected_dirs.
GetSelectedDirs ==
    /\ selectedDirs = <<>>
    /\ selectedDirs' = get_selected_dirs
    /\ UNCHANGED <<platform, romdir, xdgDataHome, xdgDataDirs, notPlannerVars>>

\* Longest "romdir" setting tried, in pieces.
MaxDirLen == 3

\* The strings of at most n pieces over the pieces in alphabet.
RECURSIVE Strings(_, _)
Strings(alphabet, n) ==
    IF n = 0 THEN {<<>>}
    ELSE LET shorter == Strings(alphabet, n - 1)
         IN  shorter \cup {Append(str, c) : str \in shorter, c \in alphabet}

\* The settings tried: the section's strings are trimmed, so they have no
\* white space at either end.
RomdirSettings == Strings({"roms", "/", "\\", "~"}, MaxDirLen)

\* The values of $XDG_DATA_HOME tried.
DataHomeSettings ==
    {Unset, SetTo(<<>>), SetTo(<<"~", "/", "data">>), SetTo(<<"/", "xdg", "/">>)}

\* The values of $XDG_DATA_DIRS tried: unset, empty, one directory, two
\* directories, and fields that are blank, padded or start with "~".
DataDirsSettings ==
    {Unset, SetTo(<<>>), SetTo(<<"/", "opt">>),
     SetTo(<<"/", "opt", "/", ":", "/", "srv">>),
     SetTo(<<" ", "/", "opt", " ", ":", ":", " ", ":", "~", "/", "d">>)}

InitDirs ==
    /\ HandlerInit
    /\ CtorIdle
    /\ PresenceIdle
    /\ ResolveIdle
    /\ platform \in {"WIN32", "MACOSX", "POSIX"}
    /\ romdir \in RomdirSettings
    /\ xdgDataHome \in DataHomeSettings
    /\ xdgDataDirs \in DataDirsSettings
    /\ selectedDirs = <<>>

NextDirs == GetSelectedDirs

SpecDirs == InitDirs /\ [][NextDirs]_vars

\* ------------------------------------------- Model::InDir, Model::Load

\* The directories InDir and Load are called with.
RomDirs == <<"mt32-roms/", "../mt32-roms/">>

\* What a call can find about the file of a ROM: it is not there; it is
\* there and the engine does not identify it; the engine identifies it and
\* reports the ROM's id as the control ROM id, or as the PCM ROM id, or
\* reports the id of another ROM.
FileFacts(rom) ==
    {Absent,
     [exists |-> TRUE, rcode |-> "MT32EMU_RC_ROM_NOT_IDENTIFIED",
      control_rom_id |-> NoId, pcm_rom_id |-> NoId],
     [exists |-> TRUE, rcode |-> "MT32EMU_RC_OK",
      control_rom_id |-> rom.id, pcm_rom_id |-> NoId],
     [exists |-> TRUE, rcode |-> "MT32EMU_RC_OK",
      control_rom_id |-> NoId, pcm_rom_id |-> rom.id],
     [exists |-> TRUE, rcode |-> "MT32EMU_RC_OK",
      control_rom_id |-> <<"ctrl", "other", "1", "00">>, pcm_rom_id |-> NoId]}

\* What a call can find in a directory about the files of a Model: any
\* combination for the slots the Model declares.
AllFacts(model) ==
    LET SlotFacts(rom) == IF rom = NoRom THEN {Absent} ELSE FileFacts(rom)
    IN  {[pcmFull |-> pf, pcmA |-> pa, pcmB |-> pb,
          ctrlFull |-> cf, ctrlA |-> ca, ctrlB |-> cb] :
            pf \in SlotFacts(model.pcmFull),
            pa \in SlotFacts(model.pcmA),
            pb \in SlotFacts(model.pcmB),
            cf \in SlotFacts(model.ctrlFull),
            ca \in SlotFacts(model.ctrlA),
            cb \in SlotFacts(model.ctrlB)}

\* What a call finds about the genuine file of a ROM.
Genuine(rom) ==
    IF rom = NoRom THEN Absent
    ELSE [exists |-> TRUE, rcode |-> "MT32EMU_RC_OK",
          control_rom_id |-> IF rom.id[1] = "ctrl" THEN rom.id ELSE NoId,
          pcm_rom_id |-> IF rom.id[1] = "pcm" THEN rom.id ELSE NoId]

\* What a call finds in a directory that holds the genuine file of every ROM
\* the Model declares.
GenuineFacts(model) == [slot \in Slots |-> Genuine(model[slot])]

\* What a call finds in such a directory, in one that holds the PCM ROMs only,
\* and in one that holds no file.
SetFacts(model) ==
    LET pcm_roms == [slot \in Slots |->
                        IF slot \in {"pcmFull", "pcmA", "pcmB"}
                        THEN Genuine(model[slot]) ELSE Absent]
    IN  {GenuineFacts(model), pcm_roms, NoFacts}

\* InDir, the check_rom lambda, on what the call finds about the ROM's file.
check_rom(rom, fact) ==
    IF rom = NoRom THEN FALSE
    ELSE IF ~fact.exists THEN FALSE
    ELSE IF fact.rcode # "MT32EMU_RC_OK" THEN FALSE
    ELSE IF is_versioned(rom)
         THEN LET ctrl_ver_matches == /\ fact.control_rom_id # NoId
                                      /\ rom.id = fact.control_rom_id
                  pcm_ver_matches == /\ fact.pcm_rom_id # NoId
                                     /\ rom.id = fact.pcm_rom_id
              IN  ctrl_ver_matches \/ pcm_ver_matches
         ELSE TRUE

\* A check_both that is content with one half.
check_both_either(rom_a, fact_a, rom_b, fact_b) ==
    check_rom(rom_a, fact_a) \/ check_rom(rom_b, fact_b)

\* InDir, the check_both lambda.
check_both(rom_a, fact_a, rom_b, fact_b) ==
    check_rom(rom_a, fact_a) /\ check_rom(rom_b, fact_b)

\* InDir, from have_pcm to have_both.
have_both(model, facts) ==
    LET have_pcm == \/ check_rom(model.pcmFull, facts.pcmFull)
                    \/ check_both(model.pcmA, facts.pcmA, model.pcmB, facts.pcmB)
        have_ctrl == \/ check_rom(model.ctrlFull, facts.ctrlFull)
                     \/ check_both(model.ctrlA, facts.ctrlA,
                                   model.ctrlB, facts.ctrlB)
    IN  have_pcm /\ have_ctrl

\* An InDir that never finds its cache filled.
NeverCached(i, dir) == FALSE

\* InDir, "inDir.find(dir) != inDir.end()".
Cached(i, dir) == dir \in DOMAIN inDir[i]

\* Model::InDir of all_models[i] on dir; factsets is what the call can find
\* about the files in the directory if it looks.
InDir(i, dir, factsets) ==
    IF Cached(i, dir)
    THEN /\ callResult' = inDir[i][dir]
         /\ callValidated' = FALSE
         /\ callFacts' = NoFacts
         /\ UNCHANGED inDir
    ELSE \E facts \in factsets :
             /\ callFacts' = facts
             /\ callValidated' = TRUE
             /\ callResult' = have_both(all_models[i], facts)
             /\ inDir' = [inDir EXCEPT
                             ![i] = (dir :> have_both(all_models[i], facts)) @@ @]

\* The return codes of addROMFile and mergeAndAddROMFiles.
ReturnCodes ==
    {"MT32EMU_RC_ADDED_PCM_ROM", "MT32EMU_RC_ADDED_CONTROL_ROM",
     "MT32EMU_RC_ROM_NOT_IDENTIFIED"}

\* The files Load can hand to the engine: a full file or a pair, per role.
Forms == {"pcmFull", "pcmPair", "ctrlFull", "ctrlPair"}

\* Load, the load_rom lambda: rcode is what addROMFile returns for the file.
load_rom(rom, expected_code, rcode) ==
    IF rom = NoRom THEN FALSE ELSE rcode = expected_code

\* Load, the load_pair lambda: rcode is what mergeAndAddROMFiles returns.
load_pair(rom_a, rom_b, expected_code, rcode) ==
    IF rom_a = NoRom \/ rom_b = NoRom THEN FALSE ELSE rcode = expected_code

\* Load after its first test: what it returns when the engine answers the add
\* calls with rc, and the add calls it makes, in order.
load_roms(model, rc) ==
    LET pcm_full == load_rom(model.pcmFull, "MT32EMU_RC_ADDED_PCM_ROM", rc.pcmFull)
        pcm_pair == load_pair(model.pcmA, model.pcmB,
                              "MT32EMU_RC_ADDED_PCM_ROM", rc.pcmPair)
        ctrl_full == load_rom(model.ctrlFull, "MT32EMU_RC_ADDED_CONTROL_ROM",
                              rc.ctrlFull)
        ctrl_pair == load_pair(model.ctrlA, model.ctrlB,
                               "MT32EMU_RC_ADDED_CONTROL_ROM", rc.ctrlPair)
        loaded_pcm == pcm_full \/ pcm_pair
        loaded_ctrl == ctrl_full \/ ctrl_pair
        called(form) ==
            CASE form = "pcmFull" -> model.pcmFull # NoRom
              [] form = "pcmPair" ->
                     ~pcm_full /\ model.pcmA # NoRom /\ model.pcmB # NoRom
              [] form = "ctrlFull" -> model.ctrlFull # NoRom
              [] form = "ctrlPair" ->
                     ~ctrl_full /\ model.ctrlA # NoRom /\ model.ctrlB # NoRom
        order == <<"pcmFull", "pcmPair", "ctrlFull", "ctrlPair">>
    IN  [result |-> loaded_pcm /\ loaded_ctrl,
         calls |-> SelectSeq([k \in 1..4 |-> [form |-> order[k],
                                              rcode |-> rc[order[k]]]],
                             LAMBDA c : called(c.form))]

\* Model::Load of all_models[i] on dir.
Load(i, dir, factsets) ==
    /\ InDir(i, dir, factsets)
    /\ IF ~callResult'
       THEN /\ loadLog' = <<>>
            /\ loadResult' = FALSE
       ELSE \E rc \in [Forms -> ReturnCodes] :
                /\ loadLog' = load_roms(all_models[i], rc).calls
                /\ loadResult' = load_roms(all_models[i], rc).result

\* A call of InDir on the Model under test, by Load, by the listing or by
\* load_model.
InDirCall ==
    /\ tested # 0
    /\ callKind = "none"
    /\ \E k \in 1..Len(RomDirs) :
           /\ InDir(tested, RomDirs[k], AllFacts(all_models[tested]))
           /\ callDir' = RomDirs[k]
    /\ callKind' = "InDir"
    /\ callModel' = tested
    /\ UNCHANGED <<tested, loadLog, loadResult, notPresenceVars>>

\* A call of Load on the Model under test.
LoadCall ==
    /\ tested # 0
    /\ callKind = "none"
    /\ \E k \in 1..Len(RomDirs) :
           /\ Load(tested, RomDirs[k], SetFacts(all_models[tested]))
           /\ callDir' = RomDirs[k]
    /\ callKind' = "Load"
    /\ callModel' = tested
    /\ UNCHANGED <<tested, notPresenceVars>>

\* The call returned and its caller goes on.
CallReturn ==
    /\ callKind # "none"
    /\ callKind' = "none"
    /\ callModel' = 0
    /\ callDir' = ""
    /\ callFacts' = NoFacts
    /\ callValidated' = FALSE
    /\ callResult' = FALSE
    /\ loadLog' = <<>>
    /\ loadResult' = FALSE
    /\ UNCHANGED <<inDir, tested, notPresenceVars>>

InitPresence ==
    /\ HandlerInit
    /\ CtorIdle
    /\ PlannerIdle
    /\ ResolveIdle
    /\ inDir = EmptyCaches
    /\ tested \in 1..Len(all_models)
    /\ CallIdle

NextPresence == InDirCall \/ LoadCall \/ CallReturn

SpecPresence == InitPresence /\ [][NextPresence]_vars

\* ----------------------------------------------------------- load_model

\* Model::Name.
Name(model) == model.name

\* A load_model that takes every model whatever the selector.
SelectedAny(i) == TRUE

\* load_model, "is_auto || selected_model == model->Name()".
Selected(i) ==
    LET is_auto == selected_model = "auto"
    IN  is_auto \/ selected_model = Name(all_models[i])

\* What InDir finds in a directory when it looks for the files of
\* all_models[i].
FactsIn(i, dir) ==
    IF <<i, dir>> \in romSets THEN {GenuineFacts(all_models[i])} ELSE {NoFacts}

\* load_model is entered.
LoadModelEnter ==
    /\ scanPc = "idle"
    /\ scanPc' = "scan"
    /\ scanModel' = 1
    /\ scanDir' = 1
    /\ UNCHANGED <<romSets, selected_model, loads, resolveResult, inDir,
                   callVars, notResolveVars>>

\* load_model, the outer loop passes a model the selector does not name.
LoadModelSkip ==
    /\ scanPc = "scan"
    /\ scanModel <= Len(all_models)
    /\ ~Selected(scanModel)
    /\ scanModel' = scanModel + 1
    /\ UNCHANGED <<romSets, selected_model, scanPc, scanDir, loads,
                   resolveResult, inDir, callVars, notResolveVars>>

\* load_model, "model->InDir(service, dir)" on the next directory; when it is
\* false the inner loop goes on.
LoadModelProbe ==
    /\ scanPc = "scan"
    /\ scanModel <= Len(all_models)
    /\ Selected(scanModel)
    /\ scanDir <= Len(RomDirs)
    /\ InDir(scanModel, RomDirs[scanDir], FactsIn(scanModel, RomDirs[scanDir]))
    /\ callKind' = "InDir"
    /\ callModel' = scanModel
    /\ callDir' = RomDirs[scanDir]
    /\ loadLog' = <<>>
    /\ loadResult' = FALSE
    /\ IF callResult'
       THEN scanPc' = "load" /\ scanDir' = scanDir
       ELSE scanPc' = "scan" /\ scanDir' = scanDir + 1
    /\ UNCHANGED <<romSets, selected_model, scanModel, loads, resolveResult,
                   notResolveVars>>

\* A load_model that stops at the first Load, whatever it returns.
LoadModelLoadOnce ==
    /\ scanPc = "load"
    /\ Load(scanModel, RomDirs[scanDir], FactsIn(scanModel, RomDirs[scanDir]))
    /\ callKind' = "Load"
    /\ callModel' = scanModel
    /\ callDir' = RomDirs[scanDir]
    /\ loads' = loads \cup {[model |-> scanModel, dir |-> scanDir,
                              result |-> loadResult']}
    /\ scanPc' = "done"
    /\ scanDir' = scanDir
    /\ resolveResult' = IF loadResult' THEN "true" ELSE "false"
    /\ UNCHANGED <<romSets, selected_model, scanModel, notResolveVars>>

\* load_model, "model->Load(service, dir)" after InDir was true: return true
\* when it is true, go on with the inner loop when it is not.
LoadModelLoad ==
    /\ scanPc = "load"
    /\ Load(scanModel, RomDirs[scanDir], FactsIn(scanModel, RomDirs[scanDir]))
    /\ callKind' = "Load"
    /\ callModel' = scanModel
    /\ callDir' = RomDirs[scanDir]
    /\ loads' = loads \cup {[model |-> scanModel, dir |-> scanDir,
                              result |-> loadResult']}
    /\ IF loadResult'
       THEN /\ scanPc' = "done"
            /\ scanDir' = scanDir
            /\ resolveResult' = "true"
       ELSE /\ scanPc' = "scan"
            /\ scanDir' = scanDir + 1
            /\ resolveResult' = resolveResult
    /\ UNCHANGED <<romSets, selected_model, scanModel, notResolveVars>>

\* load_model, the inner loop is through the directories.
LoadModelNextModel ==
    /\ scanPc = "scan"
    /\ scanModel <= Len(all_models)
    /\ Selected(scanModel)
    /\ scanDir > Len(RomDirs)
    /\ scanModel' = scanModel + 1
    /\ scanDir' = 1
    /\ UNCHANGED <<romSets, selected_model, scanPc, loads, resolveResult,
                   inDir, callVars, notResolveVars>>

\* load_model, "return false" after the outer loop.
LoadModelFail ==
    /\ scanPc = "scan"
    /\ scanModel > Len(all_models)
    /\ scanPc' = "done"
    /\ resolveResult' = "false"
    /\ UNCHANGED <<romSets, selected_model, scanModel, scanDir, loads, inDir,
                   callVars, notResolveVars>>

\* Most (Model, directory) pairs whose ROM files are there.
MaxPresent == 2

\* The (Model, directory) pairs.
Pairs ==
    {<<i, RomDirs[k]>> : i \in 1..Len(all_models), k \in 1..Len(RomDirs)}

\* The sets of at most n pairs.
RECURSIVE PairSets(_)
PairSets(n) ==
    IF n = 0 THEN {{}}
    ELSE LET smaller == PairSets(n - 1)
         IN  smaller \cup {set \cup {pair} : set \in smaller, pair \in Pairs}

\* The values of the "model" setting.
ModelSettings == {"auto"} \cup {Name(all_models[i]) : i \in 1..Len(all_models)}

InitResolve ==
    /\ HandlerInit
    /\ CtorIdle
    /\ PlannerIdle
    /\ PresenceIdle
    /\ romSets \in PairSets(MaxPresent)
    /\ selected_model \in ModelSettings
    /\ scanPc = "idle"
    /\ scanModel = 0
    /\ scanDir = 0
    /\ loads = {}
    /\ resolveResult = "none"

NextResolve ==
    \/ LoadModelEnter
    \/ LoadModelSkip
    \/ LoadModelProbe
    \/ LoadModelLoad
    \/ LoadModelNextModel
    \/ LoadModelFail

SpecResolve == InitResolve /\ [][NextResolve]_vars

\* ------------------------------------------------------- specifications

Next == Lifecycle \/ Renderer \/ Playback

Spec == Init /\ [][Next]_vars

\* One session with MIDI events and level changes arriving while it plays.
FirstSession == Lifecycle /\ opens' <= 1 /\ ~(OpenCall /\ opens >= 1)

NextSession == FirstSession \/ EngineCalls \/ Renderer \/ Playback

SpecSession == Init /\ [][NextSession]_vars

\* The playback callback of the frame-accounting scenario.
PlaybackScenario ==
    \/ CbStartScenario
    \/ CbLoop
    \/ CbReturn
    \/ CbNext
    \/ CbInc
    \/ CbZero

\* One session in which the mixer asks for the scenario's frame counts.
NextFrames == FirstSession \/ Renderer \/ PlaybackScenario

SpecFrames == Init /\ [][NextFrames]_vars

\* The pipeline with its threads scheduled: the renderer thread keeps running
\* (its engine calls return) and a Close() in progress goes on through its
\* queue statements (lines 573-576) to the join.
CloseQueueSteps == CloseSize \/ ClosePut \/ CloseDrain

SpecCancel == Init /\ [][Next]_vars /\ WF_vars(Renderer) /\ WF_vars(CloseQueueSteps)

\* The pipeline with the renderer thread and the mixer's thread scheduled: the
\* renderer keeps running (its engine calls return) and a MixerCallBack in
\* progress goes on whenever it is not blocked on a queue.
CallbackSteps == CbLoop \/ CbReturn \/ CbNext \/ CbInc \/ CbZero

SpecPull == Init /\ [][Next]_vars /\ WF_vars(Renderer) /\ WF_vars(CallbackSteps)

\* ---------------------------------------------------------------- claims

\* Buffers in circulation: in backstock, held by the renderer, in playable,
\* held by play_buffer.
InCirculation ==
    Count(backstock) + Held(playable_buffer) + Count(playable) + Held(play_buffer)

\* The renderer is in its rendering loop and has not been told to stop, and
\* Open has returned: the steady state of a session.
Rendering ==
    /\ pcR \in {"r_check", "r_lock", "r_render", "r_deq", "r_enq"}
    /\ keep_rendering
    /\ is_open

\* C1: while the renderer is rendering, the buffers in backstock, in the
\* renderer's hands, in playable and in play_buffer number the queue capacity,
\* the same in every session (buffers are moved between the four holders, so
\* each is in one of them only, and none is made or lost).
C1_BufferConservation == Rendering => InCirculation = Capacity

\* C2: when a Close of an open pipeline returns, backstock, playable and the
\* buffers in flight (play_buffer, the renderer's) hold as many buffers as the
\* queue capacity.
C2_CapacityAfterClose == pcMain = "cl_ret" => InCirculation = Capacity

\* The steps of a Close in progress.
CloseSteps == CloseSize \/ ClosePut \/ CloseDrain \/ CloseJoin \/ CloseStop

InClose == pcMain \in {"cl_size", "cl_put", "cl_drain", "cl_join", "cl_stop"}

\* C3: a Close of an open pipeline (no pull callback running) is never blocked
\* for good: while it runs, either Close itself can take its next step or the
\* renderer, which alone can free it, can take one.
C3_CloseNeverStuck == InClose => (ENABLED CloseSteps \/ ENABLED Renderer)

\* The renderer waits in a queue operation that cannot complete.
RendererBlocked ==
    \/ pcR \in {"r_fill_enq", "r_last"} /\ ~CanEnqueue(backstock)
    \/ pcR = "r_deq" /\ ~CanDequeue(backstock)
    \/ pcR = "r_enq" /\ ~CanEnqueue(playable)

\* The playback callback waits in a queue operation that cannot complete.
CallbackBlocked ==
    \/ pcCb = "cb_return" /\ ~CanEnqueue(backstock)
    \/ pcCb = "cb_next" /\ ~CanDequeue(playable)

\* C4: after Open, Close, Open the pipeline works as after one Open: one
\* renderer thread, and the renderer and the playback callback are never both
\* blocked on queue operations (each being the only one to unblock the other).
C4_RoundTripNoStuckQueues ==
    /\ pcMain # "terminated"
    /\ ~(RendererBlocked /\ CallbackBlocked)

\* The state of the pipeline a Close works on: queues, play_buffer, playback
\* cursor, stop flag, renderer thread, engine handle and mixer channel.
PipelineState ==
    <<backstock, playable, play_buffer, playable_buffer, total_buffers_played,
      last_played_frame, keep_rendering, pcR, service, synthOpen, channel,
      chanEnabled, is_open, service_mutex>>

\* A step of the main context inside a Close(), its entry and its return
\* included (Open's first statement is such a Close).
CloseCodeStep ==
    \/ /\ pcMain = "idle"
       /\ pcMain' \in {"cl_noop", "cl_size", "op_load"}
    \/ /\ pcMain \in {"cl_noop", "cl_size", "cl_put", "cl_drain", "cl_join", "cl_stop"}
       /\ pcMain' # pcMain

\* C5: a Close called while is_open is false (before any Open, after a failed
\* Open, as the first statement of Open, right after another Close) changes
\* nothing of the pipeline: queues, play_buffer, cursor, stop flag, renderer
\* thread, engine handle and channel stay as they are, from the call to its
\* return.
C5_CloseNoOpWhenNotOpen ==
    [][(~is_open /\ CloseCodeStep) => UNCHANGED PipelineState]_vars

\* A Close that found the handler closed is returning, and the pipeline it
\* left alone holds the buffers an earlier session left in the queues.
C5_Witness ==
    /\ pcMain = "cl_noop"
    /\ opens >= 1
    /\ Len(playable) > 0
    /\ Len(backstock) > 0

\* C6: the engine is torn down (closeSynth, freeContext, service.reset) only
\* once the renderer thread has ended and been joined: as long as a renderer
\* thread exists the synth is open and the handler holds the service, and the
\* teardown step runs with no renderer thread.
C6_TeardownAfterJoin ==
    /\ pcR # "none" => (synthOpen /\ service)
    /\ pcMain = "cl_stop" => pcR = "none"

\* Close has torn the engine down after a join that had to wait: the buffer
\* left in playable was pushed by the renderer after Close's drain.
C6_Witness ==
    /\ pcMain = "cl_ret"
    /\ ~synthOpen
    /\ ~service
    /\ pcR = "none"
    /\ Len(playable) > 0

\* The renderer is inside renderFloat.
RendererInEngine == pcR = "r_render"

\* The main context is inside an engine call: the timestamp query and
\* playMsgAt / playSysexAt of an event injection, setOutputGain of a gain
\* update, closeSynth / freeContext of a Close.
MainInInjection == pcMain \in {"midi_rd_tot", "midi_rd_last", "midi_play"}

MainInGain == pcMain = "lvl_gain"

MainInEngine == MainInInjection \/ MainInGain \/ pcMain = "cl_stop"

\* C7: the renderer's renderFloat, an event injection (timestamp query
\* included) and a gain update never overlap; each holds service_mutex for the
\* whole of its engine call.
C7_EngineMutualExclusion ==
    /\ ~(RendererInEngine /\ MainInEngine)
    /\ RendererInEngine => service_mutex = "renderer"
    /\ (MainInInjection \/ MainInGain) => service_mutex = "main"

\* The renderer waits for the mutex an event injection holds.
C7_Witness ==
    /\ pcR = "r_lock"
    /\ pcMain = "midi_play"
    /\ service_mutex = "main"

\* C8: within a session, the value GetMidiEventTimestamp computes is never
\* smaller than the value it computed the time before, whatever the playback
\* callback does meanwhile.
C8_TimestampMonotonic == curTs >= prevTs

\* C9: the engine receives the events of the caller in the order of their
\* submission, each with the timestamp computed from the playback cursor as
\* read during its own submission call.
C9_EventOrder ==
    \A i \in 1..Len(engineLog) :
        /\ engineLog[i].seq = i
        /\ engineLog[i].readIn = i
        /\ engineLog[i].ts = Timestamp(engineLog[i].tot, engineLog[i].last)

\* Two events reached the engine and the playback cursor moved to another
\* buffer between their submissions.
C9_Witness ==
    /\ Len(engineLog) = 2
    /\ engineLog[1].tot < engineLog[2].tot
    /\ engineLog[1].ts # engineLog[2].ts

\* What C10 says of every state: a queue never holds more than Capacity; the
\* Capacity enqueues that fill the empty backstock in the first session never
\* wait; an enqueue can complete exactly when the queue is below Capacity (so
\* one on a full queue waits until a dequeue, and can complete after it).
BackpressureState ==
    /\ Len(backstock) <= Capacity
    /\ Len(playable) <= Capacity
    /\ (opens = 1 /\ pcR \in {"r_fill_enq", "r_last"}) => Len(backstock) < Capacity
    /\ pcR = "r_fill_enq" => (ENABLED RenderFillEnqueue <=> Len(backstock) < Capacity)
    /\ pcR = "r_last" => (ENABLED RenderFillLast <=> Len(backstock) < Capacity)
    /\ pcR = "r_enq" => (ENABLED RenderEnqueue <=> Len(playable) < Capacity)
    /\ pcCb = "cb_return" => (ENABLED CbReturn <=> Len(backstock) < Capacity)
    /\ pcMain = "cl_put" => (ENABLED ClosePut <=> Len(backstock) < Capacity)

\* What C10 says of every step: a queue grows by one item at a time and only
\* from below Capacity.
BackpressureStep ==
    /\ Len(backstock') > Len(backstock) =>
           (Len(backstock) < Capacity /\ Len(backstock') = Len(backstock) + 1)
    /\ Len(playable') > Len(playable) =>
           (Len(playable) < Capacity /\ Len(playable') = Len(playable) + 1)

ScenarioCallDone ==
    /\ pcCb = "cb_loop"
    /\ requested_frames = 0
    /\ cbRequested = 2500
    /\ FRAMES_PER_BUFFER - cbOffset = 400

\* C11 as stated: the call for 2500 frames with 400 frames left takes two
\* buffers from playable, returns two to backstock and leaves 1896 frames of
\* the last one consumed.
C11_AsStated ==
    ScenarioCallDone =>
        (cbPulled = 2 /\ cbReturned = 2 /\ last_played_frame = 1896)

\* C11, amended: the call for 2500 frames with 400 frames left consumes these
\* 400, takes three buffers from playable, returns three spent buffers to
\* backstock and leaves 52 frames of the third consumed
\* (2500 = 400 + 1024 + 1024 + 52).
C11_FrameAccounting ==
    ScenarioCallDone =>
        /\ cbPulled = 3
        /\ cbReturned = 3
        /\ last_played_frame = 52
        /\ total_buffers_played = 3

C11_Witness == ScenarioCallDone /\ cbPulled = 3

\* Open() is past its Close() and has not started the renderer, or is
\* returning false.
InOpenAttempt == pcMain \in {"op_load", "op_synth", "op_fail"}

\* Open() is returning false and the pipeline is closed: not open, no renderer
\* thread, stop flag down, playback not enabled, no engine handle and no mixer
\* channel held, no synth open.
FailedOpenClosed ==
    pcMain = "op_fail" =>
        /\ ~is_open
        /\ pcR = "none"
        /\ ~keep_rendering
        /\ ~chanEnabled
        /\ pcCb = "idle"
        /\ ~service
        /\ ~channel
        /\ ~synthOpen

\* A step of an Open attempt up to its return, the step into Open() on a
\* closed handler included.
OpenAttemptStep ==
    \/ InOpenAttempt
    \/ pcMain = "idle" /\ ~is_open /\ pcMain' = "op_load"

C19_CloseResetsQueues ==
    pcMain = "cl_ret" =>
        /\ backstock = <<>>
        /\ playable = <<>>
        /\ total_buffers_played = 0
        /\ last_played_frame = 0

\* The renderer completes its pre-population: the step that ends with the
\* enqueue of line 669, before the first test of keep_rendering.
PrePopulationEnds == pcR = "r_last" /\ pcR' = "r_check"

PcmForms(m) ==
    {"full" : x \in {m.pcmFull} \ {NoRom}}
    \cup {"pair" : x \in ({m.pcmA} \ {NoRom}) \X ({m.pcmB} \ {NoRom})}

CtrlForms(m) ==
    {"full" : x \in {m.ctrlFull} \ {NoRom}}
    \cup {"pair" : x \in ({m.ctrlA} \ {NoRom}) \X ({m.ctrlB} \ {NoRom})}

ConstructionInvariant(m) ==
    /\ m.name # ""
    /\ PcmForms(m) # {}
    /\ CtrlForms(m) # {}

\* C17: a configuration is constructed only if its name is not empty, it has
\* the full PCM file or both PCM halves, and it has the full control file or
\* both control halves; a construction with neither form of a resource is
\* rejected; every configuration of the catalogue satisfies the invariant.
C17_ConstructionInvariant ==
    /\ ctorOutcome = "constructed" => ConstructionInvariant(ctorArgs)
    /\ (ctorOutcome # "none" /\ ~ConstructionInvariant(ctorArgs))
           => ctorOutcome = "aborted"
    /\ \A i \in 1..Len(all_models) : ConstructionInvariant(all_models[i])

\* A construction with one PCM half only was rejected.
C17_Witness ==
    /\ ctorOutcome = "aborted"
    /\ ctorArgs.name # ""
    /\ ctorArgs.pcmFull = NoRom
    /\ ctorArgs.pcmA # NoRom
    /\ ctorArgs.pcmB = NoRom
    /\ CtrlForms(ctorArgs) # {}

\* The characters get_selected_dirs takes for the end of a directory.
IsPathSeparator(c) == c \in {"/", "\\"}

\* The directory the user configured, or the default one.
UserDirectory == IF romdir = <<>> THEN <<"mt32-roms">> ELSE romdir

\* The platform's and the environment's locations, for the environment the
\* call ran in.
PlatformLocations == get_rom_dirs

RegistryCallStep == callKind = "none" /\ callKind' # "none"

\* C14: a call of InDir(M, D), direct or through Load, that finds an entry for
\* (M, D) returns that entry without looking at files or asking the engine and
\* leaves all entries alone; a call that finds none looks, and adds the entry
\* it returns; no step changes or removes an entry, and the entries of other
\* pairs are not touched by the call.
C14_PresenceCache ==
    [][/\ \A i \in DOMAIN inDir : \A dir \in DOMAIN inDir[i] :
              /\ dir \in DOMAIN inDir'[i]
              /\ inDir'[i][dir] = inDir[i][dir]
       /\ ~RegistryCallStep => inDir' = inDir
       /\ RegistryCallStep =>
              /\ \A i \in DOMAIN inDir : \A dir \in DOMAIN inDir'[i] :
                     dir \in DOMAIN inDir[i] \/ <<i, dir>> = <<callModel', callDir'>>
              /\ IF callDir' \in DOMAIN inDir[callModel']
                 THEN /\ callResult' = inDir[callModel'][callDir']
                      /\ ~callValidated'
                      /\ inDir' = inDir
                 ELSE /\ callValidated'
                      /\ callDir' \in DOMAIN inDir'[callModel']
                      /\ inDir'[callModel'][callDir'] = callResult'
      ]_vars

\* Load ran on a pair whose entry was there, got TRUE from it without looking,
\* and the entry of the other directory holds FALSE.
C14_Witness ==
    /\ callKind = "Load"
    /\ ~callValidated
    /\ callResult
    /\ \E dir \in DOMAIN inDir[callModel] :
           dir # callDir /\ ~inDir[callModel][dir]

\* A resource passes: it is declared, its file exists, the engine identifies
\* the file, and a versioned id is the control ROM id or the PCM ROM id the
\* engine reports.
Passes(rom, fact) ==
    /\ rom # NoRom
    /\ fact.exists
    /\ fact.rcode = "MT32EMU_RC_OK"
    /\ is_versioned(rom) => rom.id \in {fact.control_rom_id, fact.pcm_rom_id}

PresenceRule(model, facts) ==
    /\ \/ Passes(model.pcmFull, facts.pcmFull)
       \/ Passes(model.pcmA, facts.pcmA) /\ Passes(model.pcmB, facts.pcmB)
    /\ \/ Passes(model.ctrlFull, facts.ctrlFull)
       \/ Passes(model.ctrlA, facts.ctrlA) /\ Passes(model.ctrlB, facts.ctrlB)

\* C16: what InDir(M, D) returns when it looks at the directory is TRUE iff
\* the full PCM file passes or both PCM halves pass, and the full control file
\* passes or both control halves pass.
C16_PresenceRule ==
    (callKind # "none" /\ callValidated) =>
        (callResult <=> PresenceRule(all_models[callModel], callFacts))

\* InDir returned TRUE for a Model whose full PCM file is there but is not
\* identified, on the strength of the PCM halves and the control halves, one
\* of the halves being reported as a PCM ROM and one as a control ROM.
C16_Witness ==
    /\ callKind = "InDir"
    /\ callValidated
    /\ callResult
    /\ callFacts.pcmFull.exists
    /\ callFacts.pcmFull.rcode # "MT32EMU_RC_OK"
    /\ callFacts.pcmA.pcm_rom_id # NoId
    /\ callFacts.ctrlA.control_rom_id # NoId
    /\ all_models[callModel].ctrlFull = NoRom

\* The (configuration, directory) pairs in the order of the scan: catalogue
\* priority first, search order second.
ScanPairs ==
    {<<i, k>> : i \in 1..Len(all_models), k \in 1..Len(RomDirs)}

Precedes(p, q) == p[1] < q[1] \/ (p[1] = q[1] /\ p[2] < q[2])

\* The configurations the selector admits.
Candidate(i) == selected_model = "auto" \/ all_models[i].name = selected_model

\* InDir was called on the pair; it was true.
Probed(p) == RomDirs[p[2]] \in DOMAIN inDir[p[1]]

Present(p) == Probed(p) /\ inDir[p[1]][RomDirs[p[2]]]

\* Load was called on the pair; it succeeded; it failed.
LoadTried(p) == \E l \in loads : l.model = p[1] /\ l.dir = p[2]

LoadSucceeded(p) == [model |-> p[1], dir |-> p[2], result |-> TRUE] \in loads

LoadFailed(p) == [model |-> p[1], dir |-> p[2], result |-> FALSE] \in loads

\* The pair was probed and turned down: InDir was false or Load failed.
TurnedDown(p) ==
    /\ Probed(p)
    /\ ~LoadSucceeded(p)
    /\ ~Present(p) \/ LoadFailed(p)

\* C12: load_model scans the configurations the selector admits in catalogue
\* order and, per configuration, the directories in search order; other
\* configurations are neither probed nor loaded; it returns true at the first
\* pair whose InDir is true and whose Load succeeds, every admitted pair
\* before it having been turned down and no pair after it touched; it returns
\* false iff every admitted pair was turned down.
C12_ResolutionOrder ==
    /\ \A p \in ScanPairs : ~Candidate(p[1]) => ~Probed(p) /\ ~LoadTried(p)
    /\ \A p \in ScanPairs : LoadTried(p) => Present(p)
    /\ resolveResult = "true" =>
           LET first == <<scanModel, scanDir>>
           IN  /\ first \in ScanPairs
               /\ Candidate(first[1])
               /\ Present(first)
               /\ LoadSucceeded(first)
               /\ \A p \in ScanPairs :
                      /\ (Candidate(p[1]) /\ Precedes(p, first)) => TurnedDown(p)
                      /\ Precedes(first, p) => ~Probed(p) /\ ~LoadTried(p)
    /\ resolveResult = "false" =>
           \A p \in ScanPairs : Candidate(p[1]) => TurnedDown(p)

\* load_model returned true with a configuration found in the second
\* directory although the first directory holds the ROM files of an admitted
\* configuration of lower priority.
C12_Witness ==
    /\ resolveResult = "true"
    /\ scanDir = 2
    /\ \E i \in 1..Len(all_models) :
           /\ i > scanModel
           /\ Candidate(i)
           /\ <<i, RomDirs[1]>> \in romSets

\* The engine accepted a resource of the role in the Load call with this log:
\* the full file or the merged pair was added with the role's return code.
RoleAccepted(log, full, pair, code) ==
    \E k \in 1..Len(log) : log[k].form \in {full, pair} /\ log[k].rcode = code

PcmAccepted(log) ==
    RoleAccepted(log, "pcmFull", "pcmPair", "MT32EMU_RC_ADDED_PCM_ROM")

CtrlAccepted(log) ==
    RoleAccepted(log, "ctrlFull", "ctrlPair", "MT32EMU_RC_ADDED_CONTROL_ROM")

\* The pair of a role is handed to the engine only when the full file was not
\* accepted.
FullElsePair(log) ==
    \A k \in 1..Len(log) :
        /\ log[k].form = "pcmPair" =>
               ~RoleAccepted(log, "pcmFull", "pcmFull", "MT32EMU_RC_ADDED_PCM_ROM")
        /\ log[k].form = "ctrlPair" =>
               ~RoleAccepted(log, "ctrlFull", "ctrlFull",
                             "MT32EMU_RC_ADDED_CONTROL_ROM")

LoadSuccessMeansBothRoles ==
    (callKind = "Load" /\ loadResult) =>
        /\ PcmAccepted(loadLog)
        /\ CtrlAccepted(loadLog)
        /\ FullElsePair(loadLog)

\* load_model's step over a Load in which exactly one role was accepted: the
\* candidate is turned down and the scan is at the next directory.
PartialLoadGoesOn ==
    (scanPc = "load" /\ PcmAccepted(loadLog') # CtrlAccepted(loadLog')) =>
        /\ ~loadResult'
        /\ resolveResult' = "none"
        /\ scanPc' = "scan"
        /\ scanModel' = scanModel
        /\ scanDir' = scanDir + 1

\* load_model's step when the directories of a configuration are used up: the
\* scan is at the first directory of the next configuration.
DirectoriesUsedUp ==
    (scanPc = "scan" /\ scanModel <= Len(all_models) /\ scanDir > Len(RomDirs)) =>
        /\ scanPc' = "scan"
        /\ scanModel' = scanModel + 1
        /\ scanDir' = 1
        /\ resolveResult' = "none"

\* C15: Load returns true only if, in that call, the engine accepted a PCM
\* resource and a control resource, each as the full file or else as the merged
\* pair, with the role's return code; when exactly one role is accepted the
\* candidate is turned down and load_model goes on with the next directory,
\* and with the next configuration after the last directory.
C15_AllOrNothingLoad ==
    /\ []LoadSuccessMeansBothRoles
    /\ [][PartialLoadGoesOn /\ DirectoriesUsedUp]_vars

\* A Load in which the PCM resource was accepted and the control resource was
\* not has failed, and load_model is at the second directory.
C15_Witness ==
    /\ callKind = "Load"
    /\ ~loadResult
    /\ PcmAccepted(loadLog)
    /\ ~CtrlAccepted(loadLog)
    /\ resolveResult = "none"
    /\ scanPc = "scan"
    /\ scanDir = 2

\* ------------------------------------------------ renderer start-up (C21)

\* The renderer is at one of the two enqueues of its pre-population
\* (Render(), lines 668 and 669).
InPrePopulation == pcR \in {"r_fill_enq", "r_last"}

\* C21: in every session the renderer's pre-population never finds backstock
\* at capacity (it completes without blocking), and when it ends backstock
\* holds exactly capacity buffers (the assertion of line 670).
C21_StartUpAssertion ==
    /\ [](InPrePopulation => CanEnqueue(backstock))
    /\ [][PrePopulationEnds => Len(backstock') = Capacity]_vars

\* ------------------------------------------- cooperative cancellation (C22)

\* Positions of the renderer inside an iteration of its loop, after the test
\* of keep_rendering (Render(), lines 673-684).
InIteration(pos) == pos \in {"r_lock", "r_render", "r_deq", "r_enq"}

\* Close has cleared keep_rendering and has not yet joined the renderer.
Stopping == pcMain \in {"cl_size", "cl_put", "cl_drain", "cl_join"} /\ pcR # "none"

\* What a renderer that was at `pos` when the flag was cleared still does: one
\* renderFloat call if it had passed the test and not yet started the call,
\* one push if it was inside an iteration.
RendersOwed(pos) == IF pos = "r_lock" THEN 1 ELSE 0
PushesOwed(pos) == IF InIteration(pos) THEN 1 ELSE 0

C23_BlockingPoints ==
    /\ pcR = "r_enq" => CanEnqueue(playable)
    /\ pcCb = "cb_return" => CanEnqueue(backstock)

\* ------------------------------------------------------ Open ordering (C24)

\* The renderer thread is started (Open(), line 519).
RendererStarts == pcR = "none" /\ pcR' # "none"

\* The channel's callback is turned on (Open(), line 525).
PlaybackEnabled == ~chanEnabled /\ chanEnabled'

\* C24: in every Open the renderer is started only when load_model returned
\* true and openSynth returned OK, with playback still off; playback is
\* enabled only when the renderer was started and Open has taken its first
\* play buffer from playable; and an Open that failed has started no
\* renderer and enabled no playback, a failed load_model having opened no
\* synth either.
C24_OpenOrdering ==
    /\ [][RendererStarts =>
              /\ pcMain = "op_synth"
              /\ loaded
              /\ synthOpen'
              /\ keep_rendering'
              /\ ~chanEnabled']_vars
    /\ [][PlaybackEnabled =>
              /\ pcMain = "op_prime"
              /\ pcR # "none"
              /\ CanDequeue(playable)
              /\ play_buffer' = Head(playable)
              /\ playable' = Tail(playable)]_vars
    /\ [](pcMain = "op_fail" => pcR = "none" /\ ~chanEnabled /\ ~is_open)
    /\ [](pcMain = "op_fail" /\ ~loaded => ~synthOpen /\ ~service /\ ~channel)

\* A second Open has gone through all its steps: model loaded, synth open,
\* renderer running, first buffer taken, playback on.
C24_Witness ==
    /\ pcMain = "op_ok"
    /\ opens = 2
    /\ loaded
    /\ synthOpen
    /\ pcR # "none"
    /\ play_buffer # NoBuf
    /\ chanEnabled

\* ------------------------------------------------ playback freshness (C25)

\* MixerCallBack is about to hand frames of play_buffer to the mixer
\* (AddSamples_s16, line 632).
HandsFrames ==
    /\ pcCb = "cb_loop"
    /\ requested_frames > 0
    /\ last_played_frame < FRAMES_PER_BUFFER

\* C25: every buffer handed to the mixer is one the renderer rendered and
\* pushed to playable in the current session, the first one after an Open
\* (also after an Open that follows a Close) included.
C25_PlaybackFreshness == HandsFrames => play_buffer = opens

\* ---------------------------------------------------- pull accounting (C26)

\* What C26 says of every state: the cursor stays within the buffer, and at
\* the loop of a MixerCallBack (also at the return of its spent buffer) the
\* frames handed to the mixer so far are the frames the cursor went through,
\* FRAMES_PER_BUFFER for every buffer swap of the call.
PullState ==
    /\ last_played_frame \in 0..FRAMES_PER_BUFFER
    /\ pcCb \in {"cb_loop", "cb_return"} =>
           /\ cbPulled = cbReturned
           /\ cbRequested - requested_frames =
                  cbPulled * FRAMES_PER_BUFFER + last_played_frame - cbOffset

\* What C26 says of every step: a chunk is min(remaining, requested) and ends
\* within the buffer; the call returns when nothing is left to hand over;
\* total_buffers_played goes up by one at every buffer swap and changes at no
\* other step of a callback.
PullStep ==
    /\ (pcCb = "cb_loop" /\ requested_frames' # requested_frames) =>
           /\ requested_frames - requested_frames' =
                  Min(FRAMES_PER_BUFFER - last_played_frame, requested_frames)
           /\ last_played_frame' - last_played_frame =
                  requested_frames - requested_frames'
           /\ last_played_frame' <= FRAMES_PER_BUFFER
    /\ (pcCb = "cb_loop" /\ pcCb' = "idle") => requested_frames = 0
    /\ (pcCb # "cb_inc" /\ pcCb' = "cb_inc") => cbPulled' = cbPulled + 1
    /\ (pcCb = "cb_inc" /\ pcCb' # "cb_inc") =>
           total_buffers_played' = total_buffers_played + 1
    /\ (pcCb # "idle" /\ total_buffers_played' # total_buffers_played) =>
           pcCb = "cb_inc"

\* A MixerCallBack in progress returns.
PullServed == (pcCb # "idle") ~> (pcCb = "idle")

\* C26: every MixerCallBack(n) of an open pipeline hands the mixer n frames
\* in chunks of min(remaining, requested) that end within the current buffer,
\* keeps last_played_frame in 0..FRAMES_PER_BUFFER, counts every buffer swap
\* once in total_buffers_played and, the renderer being scheduled,
\* eventually returns.
C26_PullAccounting == []PullState /\ [][PullStep]_vars /\ PullServed

====
